---- MODULE Spec2Model ----
(***************************************************************************)
(* local-cli/runAndroid/runAndroid.js: the run-android command.            *)
(*                                                                         *)
(* Text is modelled as a sequence of one-character strings; positions are  *)
(* the 0-based positions of the JavaScript source.                         *)
(***************************************************************************)
EXTENDS Integers, Sequences, FiniteSets, TLC

VARIABLES
  content,         \* text of app/build.gradle (fs.readFileSync result)
  variant,         \* args.variant, the argument of getManifestFile
  variantType,     \* findVariants: block name searched for
  defaultVariants, \* findVariants: the list passed in
  variants,        \* findVariants: the list being built
  counter,         \* findVariants: nesting counter
  pos,             \* findVariants: scan position
  previousTerm,    \* findVariants: last result of findPreviousTerm
  ret,             \* splitVariant result [buildType, flavor]
  manifestFile,    \* getManifestFile result
  thrown,          \* exception in flight or last caught
  pc,              \* position in the program
  promise,         \* state of the promise returned by runAndroid
  packager,        \* result of isPackagerRunning()
  devices,         \* result of adb.getDevices()
  deviceIdx,       \* devices.forEach: number of devices visited
  effects,         \* external steps performed so far, in order
  log              \* console diagnostics printed so far, in order

inVars    == <<content, variant>>
scanVars  == <<variantType, defaultVariants, variants, counter, pos, previousTerm>>
splitVars == <<ret, manifestFile>>
runVars   == <<promise, packager, devices, deviceIdx, effects, log>>

vars == <<inVars, scanVars, splitVars, thrown, pc, runVars>>

(***************************************************************************)
(* Bounds of the model.                                                    *)
(***************************************************************************)
MaxBody    == 5   \* longest block body of the exhaustive scanner inputs
MaxOverrun == 2   \* positions past the end of the text the scan is followed
MaxParts   == 2   \* pieces concatenated into a variant name
MaxDevices == 2   \* longest device list

(***************************************************************************)
(* JavaScript values and strings.                                          *)
(***************************************************************************)
Undefined == <<"<undefined>">>
Null      == <<"<null>">>
Hang      == <<"<hang>">>

UpperSeq == <<"A","B","C","D","E","F","G","H","I","J","K","L","M",
              "N","O","P","Q","R","S","T","U","V","W","X","Y","Z">>
LowerSeq == <<"a","b","c","d","e","f","g","h","i","j","k","l","m",
              "n","o","p","q","r","s","t","u","v","w","x","y","z">>
Digits   == {"0","1","2","3","4","5","6","7","8","9"}

Range(s) == {s[i] : i \in 1..Len(s)}

\* String.prototype.toLowerCase on one character
LowerCh(ch) ==
  IF \E i \in 1..26 : UpperSeq[i] = ch
  THEN LowerSeq[CHOOSE i \in 1..26 : UpperSeq[i] = ch]
  ELSE ch

toLowerCase(s) == [i \in 1..Len(s) |-> LowerCh(s[i])]

\* the regular expression classes \w and \s
IsWord(ch)  == ch \in Range(UpperSeq) \cup Range(LowerSeq) \cup Digits \cup {"_"}
IsSpace(ch) == ch \in {" ", "\t", "\n"}

\* content[p]: undefined outside the string
NoChar == "<undefined>"
At(s, p) == IF p >= 0 /\ p < Len(s) THEN s[p + 1] ELSE NoChar

\* s.substring(from, to) for 0 <= from <= to <= s.length
substring(s, from, to) == SubSeq(s, from + 1, to)

\* String(x) as applied by RegExp.prototype.exec to its argument
StringOf(x) ==
  IF x = Undefined THEN <<"u", "n", "d", "e", "f", "i", "n", "e", "d">>
  ELSE IF x = Null THEN <<"n", "u", "l", "l">>
  ELSE x

\* the text as a string value
RECURSIVE Str(_)
Str(s) == IF s = <<>> THEN "" ELSE Head(s) \o Str(Tail(s))

\* Array.prototype.indexOf(x) === -1
NotIn(list, x) == \A i \in 1..Len(list) : list[i] # x

\* name occurs in s at position p; ci: ignoring case
OccursAt(s, name, p, ci) ==
  /\ p >= 0
  /\ p + Len(name) <= Len(s)
  /\ \A k \in 1..Len(name) :
       IF ci THEN LowerCh(s[p + k]) = LowerCh(name[k]) ELSE s[p + k] = name[k]

\* first position at or after p that is not whitespace (greedy \s+ or \s*)
RECURSIVE SkipWs(_, _)
SkipWs(s, p) == IF IsSpace(At(s, p)) THEN SkipWs(s, p + 1) ELSE p

(***************************************************************************)
(* findPreviousTerm(content, endPos)                                       *)
(***************************************************************************)
\* while (content[endPos] === ' ') --endPos
RECURSIVE SkipBlanksBack(_, _)
SkipBlanksBack(s, endPos) ==
  IF At(s, endPos) = " " THEN SkipBlanksBack(s, endPos - 1) ELSE endPos

\* while (regex.exec(content[endPos])) { word.push(content[endPos]); --endPos }
\* the position at which the loop stops; exec(undefined) tests the text
\* "undefined", which matches \w, so the loop never stops once endPos < 0
RECURSIVE WordLoopEnd(_, _)
WordLoopEnd(s, endPos) ==
  IF endPos < 0 THEN -1
  ELSE IF IsWord(At(s, endPos)) THEN WordLoopEnd(s, endPos - 1)
  ELSE endPos

findPreviousTerm(s, endPos) ==
  LET e == SkipBlanksBack(s, endPos)
      b == WordLoopEnd(s, e)
  IN  IF e >= 0 /\ b < 0 THEN Hang ELSE substring(s, b + 1, e + 1)

(***************************************************************************)
(* findVariants(filePath, variantType, defaultVariants)                    *)
(***************************************************************************)
\* new RegExp(`${variantType}\\s+{`, 'ig') matches at position p
HeaderAt(s, name, p) ==
  /\ OccursAt(s, name, p, TRUE)
  /\ IsSpace(At(s, p + Len(name)))
  /\ At(s, SkipWs(s, p + Len(name))) = "{"

\* regex.exec(content): is there a match
HeaderFound(s, name) == \E p \in 0..Len(s) : HeaderAt(s, name, p)

\* regex.lastIndex after the leftmost match: the position after its brace
HeaderLastIndex(s, name) ==
  LET p == CHOOSE q \in 0..Len(s) :
             HeaderAt(s, name, q) /\ \A r \in 0..(q - 1) : ~HeaderAt(s, name, r)
  IN  SkipWs(s, p + Len(name)) + 1

\* lines 228-237: read the file, search the header, set up the scan
FindVariantsEnter ==
  /\ pc = "findVariants"
  /\ IF HeaderFound(content, variantType)
     THEN /\ counter' = 1
          /\ pos' = HeaderLastIndex(content, variantType) + 1
          /\ pc' = "scan"
     ELSE /\ pc' = "fvReturned"
          /\ UNCHANGED <<counter, pos>>
  /\ UNCHANGED <<variantType, defaultVariants, variants, previousTerm>>
  /\ UNCHANGED <<inVars, splitVars, thrown, runVars>>

\* lines 239-246 and 250: an opening brace at pos
ScanOpen ==
  /\ pc = "scan"
  /\ counter > 0
  /\ At(content, pos) = "{"
  /\ counter' = counter + 1
  /\ IF counter' = 2
     THEN /\ previousTerm' = findPreviousTerm(content, pos - 1)
          /\ IF previousTerm' = Hang
             THEN pc' = "hang" /\ UNCHANGED variants
             ELSE /\ variants' = IF NotIn(variants, previousTerm')
                                 THEN Append(variants, previousTerm')
                                 ELSE variants
                  /\ pc' = pc
     ELSE UNCHANGED <<variants, previousTerm, pc>>
  /\ pos' = pos + 1
  /\ UNCHANGED <<variantType, defaultVariants>>
  /\ UNCHANGED <<inVars, splitVars, thrown, runVars>>

\* lines 247-250: a closing brace at pos
ScanClose ==
  /\ pc = "scan"
  /\ counter > 0
  /\ At(content, pos) = "}"
  /\ counter' = counter - 1
  /\ pos' = pos + 1
  /\ UNCHANGED <<variantType, defaultVariants, variants, previousTerm>>
  /\ UNCHANGED <<inVars, splitVars, thrown, pc, runVars>>

\* line 250 alone: any other character, or undefined past the end of the
\* text; the loop has no exit there, the model follows it MaxOverrun positions
ScanOther ==
  /\ pc = "scan"
  /\ counter > 0
  /\ At(content, pos) \notin {"{", "}"}
  /\ pos < Len(content) + MaxOverrun
  /\ pos' = pos + 1
  /\ UNCHANGED <<variantType, defaultVariants, variants, counter, previousTerm>>
  /\ UNCHANGED <<inVars, splitVars, thrown, pc, runVars>>

\* lines 238 and 252: the loop condition fails, return variants
ScanReturn ==
  /\ pc = "scan"
  /\ counter = 0
  /\ pc' = "fvReturned"
  /\ UNCHANGED <<inVars, scanVars, splitVars, thrown, runVars>>

(***************************************************************************)
(* The scanner on its own, over every short text.                          *)
(***************************************************************************)
RECURSIVE StringsUpTo(_, _)
StringsUpTo(alphabet, n) ==
  IF n = 0 THEN {<<>>}
  ELSE LET shorter == StringsUpTo(alphabet, n - 1)
       IN  shorter \cup {Append(s, ch) : s \in shorter, ch \in alphabet}

ScanAlphabet == {"a", "{", "}", " ", "\n"}
ScanHeaders  == {<<"b", " ", "{">>, <<"B", "\n", " ", "{">>,
                 <<"b", "{", " ", "b", " ", "{">>, <<"c", " ", "{">>}
ScanDefaults == {<<>>, <<<<"a">>>>}

InitScan ==
  /\ content \in {h \o b : h \in ScanHeaders, b \in StringsUpTo(ScanAlphabet, MaxBody)}
  /\ variant = Undefined
  /\ variantType = <<"b">>
  /\ defaultVariants \in ScanDefaults
  /\ variants = defaultVariants
  /\ counter = 0
  /\ pos = 0
  /\ previousTerm = Undefined
  /\ ret = <<>>
  /\ manifestFile = <<>>
  /\ thrown = "none"
  /\ pc = "findVariants"
  /\ promise = "pending"
  /\ packager = "unknown"
  /\ devices = <<>>
  /\ deviceIdx = 0
  /\ effects = <<>>
  /\ log = <<>>

NextScan == FindVariantsEnter \/ ScanOpen \/ ScanClose \/ ScanOther \/ ScanReturn

SpecScan == InitScan /\ [][NextScan]_vars

(***************************************************************************)
(* splitVariant(gradleFilePath, variant)                                   *)
(***************************************************************************)
BuildTypesName  == <<"b", "u", "i", "l", "d", "T", "y", "p", "e", "s">>
DefaultBuildTypes == << <<"d", "e", "b", "u", "g">>,
                        <<"r", "e", "l", "e", "a", "s", "e">> >>

\* line 256: the call findVariants(gradleFilePath, 'buildTypes', ['debug', 'release'])
SplitVariantCall ==
  /\ pc = "getManifestFile"
  /\ variantType' = BuildTypesName
  /\ defaultVariants' = DefaultBuildTypes
  /\ variants' = DefaultBuildTypes
  /\ effects' = Append(effects, "getManifestFile")
  /\ pc' = "findVariants"
  /\ UNCHANGED <<counter, pos, previousTerm>>
  /\ UNCHANGED <<inVars, splitVars, thrown>>
  /\ UNCHANGED <<promise, packager, devices, deviceIdx, log>>

\* new RegExp(names.join('|'), 'gi') matches at position p: the alternatives
\* are tried in list order, the first that matches is taken
AlternationAt(names, s, p) == \E k \in 1..Len(names) : OccursAt(s, names[k], p, TRUE)

\* regexp.exec(s) from lastIndex 0: match.index, or -1 for a null match
RECURSIVE ExecFrom(_, _, _)
ExecFrom(names, s, p) ==
  IF p > Len(s) THEN -1
  ELSE IF AlternationAt(names, s, p) THEN p
  ELSE ExecFrom(names, s, p + 1)

\* the search starts at a stale lastIndex of 1
ExecAlternationStale(names, s) == ExecFrom(names, s, 1)

ExecAlternation(names, s) == ExecFrom(names, s, 0)

\* lines 257-263: match the variant against the build types and split it
SplitVariantReturn ==
  /\ pc = "fvReturned"
  /\ LET index == ExecAlternation(variants, StringOf(variant))
     IN  IF index >= 0
         THEN IF variant \in {Undefined, Null}
              THEN \* variant.substring of undefined
                   /\ thrown' = "TypeError"
                   /\ pc' = "threw"
                   /\ ret' = ret
              ELSE /\ ret' = <<substring(variant, index, Len(variant)),
                              substring(variant, 0, index)>>
                   /\ pc' = "splitReturned"
                   /\ thrown' = thrown
         ELSE /\ ret' = <<variant, Null>>
              /\ pc' = "splitReturned"
              /\ thrown' = thrown
  /\ UNCHANGED <<inVars, scanVars, manifestFile, runVars>>

(***************************************************************************)
(* isSeparateBuildEnabled(gradleFilePath)                                  *)
(***************************************************************************)
SeparateBuildName ==
  <<"e", "n", "a", "b", "l", "e", "S", "e", "p", "a", "r", "a", "t", "e",
    "B", "u", "i", "l", "d", "P", "e", "r", "C", "P", "U", "A", "r", "c",
    "h", "i", "t", "e", "c", "t", "u", "r", "e">>

\* position of the captured group when
\* /enableSeparateBuildPerCPUArchitecture\s+=\s+([\w]+)/ matches at p, else -1
SeparateBuildGroupAt(s, p) ==
  LET afterName == p + Len(SeparateBuildName)
      eq        == SkipWs(s, afterName)
      group     == SkipWs(s, eq + 1)
  IN  IF /\ OccursAt(s, SeparateBuildName, p, FALSE)
         /\ IsSpace(At(s, afterName))
         /\ At(s, eq) = "="
         /\ IsSpace(At(s, eq + 1))
         /\ IsWord(At(s, group))
      THEN group
      ELSE -1

\* content.match(...): is there a match
SeparateBuildFound(s) == \E p \in 0..Len(s) : SeparateBuildGroupAt(s, p) >= 0

\* end of the maximal run of word characters starting at p
RECURSIVE WordEnd(_, _)
WordEnd(s, p) == IF IsWord(At(s, p)) THEN WordEnd(s, p + 1) ELSE p

\* content.match(...)[1] of the leftmost match
SeparateBuildValue(s) ==
  LET p == CHOOSE q \in 0..Len(s) :
             /\ SeparateBuildGroupAt(s, q) >= 0
             /\ \A r \in 0..(q - 1) : SeparateBuildGroupAt(s, r) < 0
      g == SeparateBuildGroupAt(s, p)
  IN  substring(s, g, WordEnd(s, g))

\* lines 265-269, when the match is not null
isSeparateBuildEnabled(s) ==
  toLowerCase(SeparateBuildValue(s)) = <<"t", "r", "u", "e">>

(***************************************************************************)
(* getManifestFile(variant)                                                *)
(***************************************************************************)
ManifestBase ==
  <<"a", "p", "p", "/", "b", "u", "i", "l", "d", "/", "i", "n", "t", "e",
    "r", "m", "e", "d", "i", "a", "t", "e", "s", "/", "m", "a", "n", "i",
    "f", "e", "s", "t", "s", "/", "f", "u", "l", "l">>
ArchSegment  == <<"x", "8", "6">>
ManifestName ==
  <<"A", "n", "d", "r", "o", "i", "d", "M", "a", "n", "i", "f", "e", "s",
    "t", ".", "x", "m", "l">>

\* if (x): undefined, null and the empty string are falsy
Truthy(x) == x \notin {Undefined, Null, <<>>}

\* Array.prototype.join('/'): undefined and null elements give the empty string
RECURSIVE join(_)
join(list) ==
  LET elem(x) == IF x \in {Undefined, Null} THEN <<>> ELSE x
  IN  IF list = <<>> THEN <<>>
      ELSE IF Len(list) = 1 THEN elem(list[1])
      ELSE elem(list[1]) \o <<"/">> \o join(Tail(list))

\* lines 276-287, given the result of isSeparateBuildEnabled
ManifestPaths(buildType, flavor, separate) ==
  <<ManifestBase>>
    \o (IF Truthy(flavor) THEN <<flavor>> ELSE <<>>)
    \o (IF separate THEN <<ArchSegment>> ELSE <<>>)
    \o <<buildType, ManifestName>>

\* lines 274-288: build the path; isSeparateBuildEnabled dereferences a null
\* match when the assignment is missing
GetManifestFileReturn ==
  /\ pc = "splitReturned"
  /\ IF SeparateBuildFound(content)
     THEN /\ manifestFile' = join(ManifestPaths(ret[1], ret[2],
                                         isSeparateBuildEnabled(content)))
          /\ pc' = "readManifest"
          /\ thrown' = thrown
     ELSE /\ thrown' = "TypeError"
          /\ pc' = "threw"
          /\ manifestFile' = manifestFile
  /\ UNCHANGED <<inVars, scanVars, ret, runVars>>

(***************************************************************************)
(* runAndroid, _runAndroid and buildAndRun                                 *)
(***************************************************************************)
\* resolve(thenable) on the promise of line 24: the promise follows the
\* thenable from then on, and later calls of resolve or reject are ignored
Resolve(p) == IF p = "pending" THEN "locked" ELSE p

\* reject() on the promise of line 24
Reject(p) == IF p = "pending" THEN "rejected" ELSE p

\* lines 50-53: no android/gradlew; the function returns without calling
\* resolve or reject
CheckAndroidMissing ==
  /\ pc = "runAndroid"
  /\ effects' = Append(effects, "checkAndroid")
  /\ log' = Append(log, "Android project not found")
  /\ pc' = "returned"
  /\ UNCHANGED <<inVars, scanVars, splitVars, thrown>>
  /\ UNCHANGED <<promise, packager, devices, deviceIdx>>

\* lines 50 and 55: the project exists; isPackagerRunning() is called and the
\* promise is resolved with the promise of its then callback
CheckAndroidFound ==
  /\ pc = "runAndroid"
  /\ effects' = effects \o <<"checkAndroid", "isPackagerRunning">>
  /\ promise' = Resolve(promise)
  /\ pc' = "packager"
  /\ UNCHANGED <<inVars, scanVars, splitVars, thrown>>
  /\ UNCHANGED <<packager, devices, deviceIdx, log>>

PackagerResults == {"running", "unrecognized", "not_running"}

\* lines 55-64: the then callback up to the call of buildAndRun
PackagerCallback ==
  /\ pc = "packager"
  /\ \E result \in PackagerResults :
       /\ packager' = result
       /\ IF result = "running"
          THEN /\ log' = Append(log, "JS server already running")
               /\ effects' = effects
          ELSE IF result = "unrecognized"
          THEN /\ log' = Append(log, "JS server not recognized")
               /\ effects' = effects
          ELSE /\ log' = Append(log, "Starting JS server")
               /\ effects' = Append(effects, "startServerInNewWindow")
  /\ pc' = "buildAndRun"
  /\ UNCHANGED <<inVars, scanVars, splitVars, thrown>>
  /\ UNCHANGED <<promise, devices, deviceIdx>>

\* lines 76-108: gradlew install succeeds
GradleInstallOk ==
  /\ pc = "buildAndRun"
  /\ log' = Append(log, "Building and installing the app")
  /\ effects' = Append(effects, "gradlew install: ok")
  /\ pc' = "getManifestFile"
  /\ UNCHANGED <<inVars, scanVars, splitVars, thrown>>
  /\ UNCHANGED <<promise, packager, devices, deviceIdx>>

\* the catch block of the first try without its return
GradleInstallFailsNoReturn ==
  /\ pc = "buildAndRun"
  /\ log' = log \o <<"Building and installing the app",
                     "Could not install the app on the device">>
  /\ effects' = Append(effects, "gradlew install: failed")
  /\ promise' = Reject(promise)
  /\ pc' = "getManifestFile"
  /\ UNCHANGED <<inVars, scanVars, splitVars, thrown>>
  /\ UNCHANGED <<packager, devices, deviceIdx>>

\* lines 76-121: execFileSync throws; the catch block prints, calls reject()
\* and returns from buildAndRun
GradleInstallFails ==
  /\ pc = "buildAndRun"
  /\ log' = log \o <<"Building and installing the app",
                     "Could not install the app on the device">>
  /\ effects' = Append(effects, "gradlew install: failed")
  /\ promise' = Reject(promise)
  /\ pc' = "buildAndRunReturned"
  /\ UNCHANGED <<inVars, scanVars, splitVars, thrown>>
  /\ UNCHANGED <<packager, devices, deviceIdx>>

\* lines 128-138: the manifest is read and the package and activity names
\* are found in it
ReadManifestOk ==
  /\ pc = "readManifest"
  /\ effects' = Append(effects, "readManifest: ok")
  /\ pc' = "getDevices"
  /\ UNCHANGED <<inVars, scanVars, splitVars, thrown>>
  /\ UNCHANGED <<promise, packager, devices, deviceIdx, log>>

\* lines 128-134: readFileSync throws, or a match is null and is dereferenced
ReadManifestThrows ==
  /\ pc = "readManifest"
  /\ \E e \in {"Error", "TypeError"} : thrown' = e
  /\ effects' = Append(effects, "readManifest: failed")
  /\ pc' = "threw"
  /\ UNCHANGED <<inVars, scanVars, splitVars>>
  /\ UNCHANGED <<promise, packager, devices, deviceIdx, log>>

Devices == {"emulator-5554", "emulator-5556", "0123456789ABCDEF"}

DeviceLists ==
  {l \in UNION {[1..n -> Devices] : n \in 0..MaxDevices} :
     \A i, j \in 1..Len(l) : i # j => l[i] # l[j]}

\* line 140: adb.getDevices()
GetDevices ==
  /\ pc = "getDevices"
  /\ devices' \in DeviceLists
  /\ deviceIdx' = 0
  /\ pc' = "launch"
  /\ UNCHANGED <<inVars, scanVars, splitVars, thrown>>
  /\ UNCHANGED <<promise, packager, effects, log>>

\* lines 142-153: one iteration of devices.forEach
LaunchOnDevice ==
  /\ pc = "launch"
  /\ Len(devices) > 0
  /\ deviceIdx < Len(devices)
  /\ LET device == devices[deviceIdx + 1]
     IN  /\ log' = Append(log, "Starting the app on " \o device)
         /\ effects' = Append(effects, "adb -s " \o device \o " shell am start")
  /\ deviceIdx' = deviceIdx + 1
  /\ pc' = IF deviceIdx' = Len(devices) THEN "buildAndRunReturned" ELSE pc
  /\ UNCHANGED <<inVars, scanVars, splitVars, thrown>>
  /\ UNCHANGED <<promise, packager, devices>>

\* lines 154-164: no device listed
LaunchFallback ==
  /\ pc = "launch"
  /\ Len(devices) = 0
  /\ log' = Append(log, "Starting the app")
  /\ effects' = Append(effects, "adb shell am start")
  /\ pc' = "buildAndRunReturned"
  /\ UNCHANGED <<inVars, scanVars, splitVars, thrown>>
  /\ UNCHANGED <<promise, packager, devices, deviceIdx>>

\* lines 166-175: the catch block of the second try
CatchAdb ==
  /\ pc = "threw"
  /\ log' = Append(log, "adb invocation failed. Do you have adb in your PATH?")
  /\ promise' = Reject(promise)
  /\ pc' = "buildAndRunReturned"
  /\ UNCHANGED <<inVars, scanVars, splitVars, thrown>>
  /\ UNCHANGED <<packager, devices, deviceIdx, effects>>

\* lines 65-66: buildAndRun returns, the then callback returns undefined, its
\* promise is fulfilled and so is the promise that follows it
CallbackReturns ==
  /\ pc = "buildAndRunReturned"
  /\ promise' = IF promise = "locked" THEN "fulfilled" ELSE promise
  /\ pc' = "done"
  /\ UNCHANGED <<inVars, scanVars, splitVars, thrown>>
  /\ UNCHANGED <<packager, devices, deviceIdx, effects, log>>

(***************************************************************************)
(* The whole command, over a set of build files and variant arguments.     *)
(***************************************************************************)
FlagFalse ==
  <<"d", "e", "f", " ">> \o SeparateBuildName
    \o <<" ", "=", " ", "f", "a", "l", "s", "e", "\n">>
FlagTrue ==
  <<"d", "e", "f", " ">> \o SeparateBuildName
    \o <<" ", "=", " ", "t", "r", "u", "e", "\n">>

\* android {\n buildTypes {\n release {\n }\n qa {\n }\n }\n}\n
BlockNested ==
  <<"a", "n", "d", "r", "o", "i", "d", " ", "{", "\n", " ">> \o BuildTypesName
    \o <<" ", "{", "\n", " ", "r", "e", "l", "e", "a", "s", "e", " ", "{",
         "\n", " ", "}", "\n", " ", "q", "a", " ", "{", "\n", " ", "}", "\n",
         " ", "}", "\n", "}", "\n">>
\* buildTypes {}\n
BlockEmpty == BuildTypesName \o <<" ", "{", "}", "\n">>
\* buildTypes {\n staging\n {\n }\n}\n
BlockNewline ==
  BuildTypesName
    \o <<" ", "{", "\n", " ", "s", "t", "a", "g", "i", "n", "g", "\n", " ",
         "{", "\n", " ", "}", "\n", "}", "\n">>
\* buildTypes {\n release {
BlockUnclosed ==
  BuildTypesName
    \o <<" ", "{", "\n", " ", "r", "e", "l", "e", "a", "s", "e", " ", "{">>

GradleFiles ==
  {f \o b : f \in {FlagFalse, FlagTrue, <<>>},
            b \in {<<>>, BlockNested, BlockEmpty, BlockNewline, BlockUnclosed}}

Pieces == {<<"d", "e", "m", "o">>, <<"R", "e", "l", "e", "a", "s", "e">>,
           <<"r", "e", "l", "e", "a", "s", "e">>, <<"d", "e", "b", "u", "g">>,
           <<"q", "a">>}

RECURSIVE Concatenations(_)
Concatenations(n) ==
  IF n = 0 THEN {<<>>}
  ELSE LET shorter == Concatenations(n - 1)
       IN  shorter \cup {s \o piece : s \in shorter, piece \in Pieces}

VariantArgs == {Undefined} \cup Concatenations(MaxParts)

Init ==
  /\ content \in GradleFiles
  /\ variant \in VariantArgs
  /\ variantType = <<>>
  /\ defaultVariants = <<>>
  /\ variants = <<>>
  /\ counter = 0
  /\ pos = 0
  /\ previousTerm = Undefined
  /\ ret = <<>>
  /\ manifestFile = <<>>
  /\ thrown = "none"
  /\ pc = "runAndroid"
  /\ promise = "pending"
  /\ packager = "unknown"
  /\ devices = <<>>
  /\ deviceIdx = 0
  /\ effects = <<>>
  /\ log = <<>>

Next ==
  \/ CheckAndroidMissing
  \/ CheckAndroidFound
  \/ PackagerCallback
  \/ GradleInstallOk
  \/ GradleInstallFails
  \/ SplitVariantCall
  \/ FindVariantsEnter
  \/ ScanOpen
  \/ ScanClose
  \/ ScanOther
  \/ ScanReturn
  \/ SplitVariantReturn
  \/ GetManifestFileReturn
  \/ ReadManifestOk
  \/ ReadManifestThrows
  \/ GetDevices
  \/ LaunchOnDevice
  \/ LaunchFallback
  \/ CatchAdb
  \/ CallbackReturns

Spec == Init /\ [][Next]_vars

(***************************************************************************)
(* Brace balance of a text, for the properties of the scanner.             *)
(***************************************************************************)
\* the braces of s from position p on are balanced, starting at depth
RECURSIVE Balanced(_, _, _)
Balanced(s, p, depth) ==
  IF p >= Len(s) THEN depth = 0
  ELSE IF s[p + 1] = "{" THEN Balanced(s, p + 1, depth + 1)
  ELSE IF s[p + 1] = "}" THEN depth > 0 /\ Balanced(s, p + 1, depth - 1)
  ELSE Balanced(s, p + 1, depth)

\* position of the closing brace at or after p that brings depth to 0, or -1
RECURSIVE ClosingBrace(_, _, _)
ClosingBrace(s, p, depth) ==
  IF p >= Len(s) THEN -1
  ELSE IF s[p + 1] = "{" THEN ClosingBrace(s, p + 1, depth + 1)
  ELSE IF s[p + 1] = "}"
       THEN IF depth = 1 THEN p ELSE ClosingBrace(s, p + 1, depth - 1)
  ELSE ClosingBrace(s, p + 1, depth)

\* position of the brace closing the block whose header was matched, or -1
BlockClose == ClosingBrace(content, HeaderLastIndex(content, variantType), 1)

InFindVariants == pc \in {"scan", "fvReturned"} /\ HeaderFound(content, variantType)

\* C1: in a brace-balanced text whose block header is found, the scan
\* examines no position after the brace that closes the block, and the
\* counter is back to 0 exactly when that brace has been consumed
C1_ScanStopsAtBalancingBrace ==
  (InFindVariants /\ Balanced(content, 0, 0)) =>
     /\ pos <= BlockClose + 1
     /\ counter = 0 => pos = BlockClose + 1

\* C2: when the matched block is never closed, the scan does not move past
\* the end of the text: it stops there with a MalformedConfig error
C2_UnclosedBlockIsMalformedConfig ==
  (InFindVariants /\ BlockClose = -1) =>
     /\ pos <= Len(content)
     /\ pos = Len(content) => (pc # "scan" /\ thrown = "MalformedConfig")

\* the identifier before position e: all whitespace is skipped backward, then
\* the maximal run of word characters is taken
RECURSIVE SkipWsBack(_, _)
SkipWsBack(s, e) == IF e >= 0 /\ IsSpace(s[e + 1]) THEN SkipWsBack(s, e - 1) ELSE e

RECURSIVE WordBegin(_, _)
WordBegin(s, e) == IF e >= 0 /\ IsWord(s[e + 1]) THEN WordBegin(s, e - 1) ELSE e + 1

IdentifierBefore(s, e) ==
  LET last == SkipWsBack(s, e) IN SubSeq(s, WordBegin(s, last) + 1, last + 1)

\* the identifiers heading the direct-child blocks of the block whose body
\* starts at p, appended to acc in order of first occurrence
RECURSIVE DirectChildren(_, _, _, _)
DirectChildren(s, p, depth, acc) ==
  IF p >= Len(s) \/ depth = 0 THEN acc
  ELSE IF s[p + 1] = "{"
       THEN LET id == IdentifierBefore(s, p - 1)
            IN  DirectChildren(s, p + 1, depth + 1,
                  IF depth = 1 /\ id # <<>> /\ NotIn(acc, id)
                  THEN Append(acc, id) ELSE acc)
  ELSE IF s[p + 1] = "}" THEN DirectChildren(s, p + 1, depth - 1, acc)
  ELSE DirectChildren(s, p + 1, depth, acc)

WithoutEmpty(list) == SelectSeq(list, LAMBDA x : x # <<>>)

\* C3: the list returned by findVariants is defaults followed by the
\* identifiers of the direct-child blocks of the first matching block, in
\* order of first occurrence and without repetition, and is exactly defaults
\* when no header matches (entries for blocks without an identifier are left
\* out of the comparison)
C3_VariantsAreDefaultsThenDirectChildren ==
  pc = "fvReturned" =>
    IF HeaderFound(content, variantType)
    THEN WithoutEmpty(variants) =
           DirectChildren(content, HeaderLastIndex(content, variantType), 1,
                          defaultVariants)
    ELSE variants = defaultVariants

\* C8: on entering a direct-child block the captured identifier is the
\* maximal run of word characters before the brace, after all whitespace
\* (blanks, tabs, newlines) between the two is skipped
C8_IdentifierSkipsAllWhitespace ==
  [][(pc = "scan" /\ counter = 1 /\ At(content, pos) = "{")
       => previousTerm' = IdentifierBefore(content, pos - 1)]_vars

(***************************************************************************)
(* Properties of splitVariant and getManifestFile.                         *)
(***************************************************************************)
\* positions of variant at which some base-type name occurs, ignoring case
OccurrencePositions ==
  {i \in 0..Len(variant) :
     \E k \in 1..Len(variants) :
        /\ i + Len(variants[k]) <= Len(variant)
        /\ toLowerCase(SubSeq(variant, i + 1, i + Len(variants[k])))
             = toLowerCase(variants[k])}

Leftmost(S) == CHOOSE i \in S : \A j \in S : i <= j

SplitDone == pc \in {"splitReturned", "readManifest"} /\ variant \notin {Undefined, Null}

\* C4: splitVariant splits the variant at the leftmost position where a
\* base-type name occurs ignoring case: (variant[i:], variant[0:i]); an empty
\* prefix adds no flavor segment to the path; with no occurrence the result
\* is (variant, null)
C4_SplitAtLeftmostOccurrence ==
  SplitDone =>
    IF OccurrencePositions = {}
    THEN ret = <<variant, Null>>
    ELSE LET i == Leftmost(OccurrencePositions)
         IN  /\ ret = <<SubSeq(variant, i + 1, Len(variant)), SubSeq(variant, 1, i)>>
             /\ (i = 0 /\ pc = "readManifest") =>
                   manifestFile \in
                     {join(<<ManifestBase, ret[1], ManifestName>>),
                      join(<<ManifestBase, ArchSegment, ret[1], ManifestName>>)}

DemoRelease == <<"d", "e", "m", "o", "R", "e", "l", "e", "a", "s", "e">>

\* demoRelease has been split at position 4, where Release matches release
\* ignoring case, and the path has been built from the two parts
C4_Witness ==
  /\ pc = "readManifest"
  /\ variant = DemoRelease
  /\ ret = << <<"R", "e", "l", "e", "a", "s", "e">>, <<"d", "e", "m", "o">> >>

\* C5: with no variant and the separate-build flag true the path is
\* app/build/intermediates/manifests/full/x86/debug/AndroidManifest.xml
C5_NoVariantPathUsesDebug ==
  (pc = "readManifest" /\ variant = Undefined /\ isSeparateBuildEnabled(content))
    => Str(manifestFile)
         = "app/build/intermediates/manifests/full/x86/debug/AndroidManifest.xml"

\* C6: with variant demoRelease, base types debug and release and the
\* separate-build flag false the path is
\* app/build/intermediates/manifests/full/demo/release/AndroidManifest.xml
C6_DemoReleasePath ==
  (/\ pc = "readManifest"
   /\ variant = DemoRelease
   /\ variants = DefaultBuildTypes
   /\ ~isSeparateBuildEnabled(content))
    => Str(manifestFile)
         = "app/build/intermediates/manifests/full/demo/release/AndroidManifest.xml"

AdbDiagnostic == "adb invocation failed. Do you have adb in your PATH?"

\* C7: when the build file has no enableSeparateBuildPerCPUArchitecture
\* assignment, manifest path resolution fails with MalformedConfig, and the
\* caller does not report it as a failure of adb
C7_MissingFlagIsMalformedConfig ==
  (/\ ~SeparateBuildFound(content)
   /\ ret # <<>>
   /\ pc \in {"threw", "buildAndRunReturned", "done"})
    => /\ thrown = "MalformedConfig"
       /\ AdbDiagnostic \notin Range(log)

(***************************************************************************)
(* Properties of the run.                                                  *)
(***************************************************************************)
IsLaunch(e) == e \notin {"checkAndroid", "isPackagerRunning", "startServerInNewWindow",
                         "gradlew install: ok", "gradlew install: failed",
                         "getManifestFile", "readManifest: ok", "readManifest: failed"}

\* place of a step in the order of the run
Rank(e) ==
  IF e = "checkAndroid" THEN 1
  ELSE IF e = "isPackagerRunning" THEN 2
  ELSE IF e = "startServerInNewWindow" THEN 3
  ELSE IF e \in {"gradlew install: ok", "gradlew install: failed"} THEN 4
  ELSE IF e = "getManifestFile" THEN 5
  ELSE IF e \in {"readManifest: ok", "readManifest: failed"} THEN 6
  ELSE 7

Launches == SelectSeq(effects, IsLaunch)

ExpectedLaunches ==
  IF Len(devices) > 0
  THEN [i \in 1..Len(devices) |-> "adb -s " \o devices[i] \o " shell am start"]
  ELSE <<"adb shell am start">>

\* C9: the steps happen in the order project check, packager check (the JS
\* server is started only when the packager is not running), gradle install,
\* manifest resolution, launch, none of them without the ones before it; no
\* launch is issued unless the gradle install succeeded; a run that reaches
\* the launch step issues one launch per listed device, in order, or one
\* launch without a device when none is listed
C9_StepOrderAndLaunches ==
  /\ \A i, j \in 1..Len(effects) :
       i < j => /\ Rank(effects[i]) <= Rank(effects[j])
                /\ Rank(effects[i]) = Rank(effects[j]) => IsLaunch(effects[i])
  /\ \A j \in 1..Len(effects) :
       /\ Rank(effects[j]) \in {2, 4, 5, 6} =>
            \E i \in 1..(j - 1) : Rank(effects[i]) = Rank(effects[j]) - 1
                                  \/ (Rank(effects[j]) = 4 /\ Rank(effects[i]) = 2)
       /\ Rank(effects[j]) = 3 => effects[j - 1] = "isPackagerRunning"
       /\ Rank(effects[j]) = 7 => "readManifest: ok" \in Range(effects)
  /\ "startServerInNewWindow" \in Range(effects) <=> packager = "not_running"
  /\ Launches # <<>> => /\ "gradlew install: ok" \in Range(effects)
                        /\ "gradlew install: failed" \notin Range(effects)
  /\ Len(Launches) <= Len(ExpectedLaunches)
  /\ Launches = SubSeq(ExpectedLaunches, 1, Len(Launches))
  /\ (pc \in {"buildAndRunReturned", "done"} /\ "readManifest: ok" \in Range(effects))
       => Launches = ExpectedLaunches

\* a run that started the JS server and launched the app on two devices
C9_Witness ==
  /\ pc = "done"
  /\ Len(devices) = 2
  /\ Len(Launches) = 2
  /\ "startServerInNewWindow" \in Range(effects)

StepFailed == "gradlew install: failed" \in Range(effects) \/ thrown # "none"

\* C10: when the run is over, the promise is rejected if the gradle install
\* failed or the manifest-resolution and launch step threw, and it is
\* fulfilled only if neither did
C10_PromiseRejectedOnFailure ==
  pc = "done" =>
    /\ StepFailed => promise = "rejected"
    /\ promise = "fulfilled" => ~StepFailed

====
